---------------------------- MODULE Spec2Model ----------------------------
(***************************************************************************)
(* ha-utility-costs: a Home Assistant integration that polls a rates       *)
(* backend (coordinator.py), projects the cached document into sensors     *)
(* (sensor.py) and is configured by a two-step wizard (config_flow.py).    *)
(*                                                                         *)
(* Three specifications share the variables:                               *)
(*   Spec        entry setup, polling and unload (__init__, coordinator)   *)
(*   SpecSensor  sensor reads over every shape of cached document          *)
(*   SpecFlow    the configuration wizard and the entries it creates       *)
(*                                                                         *)
(* Conventions.  A JSON value is a record [t, v]: t is its shape and v an  *)
(* integer (a number's value, a list's length, a timestamp's instant).     *)
(* Money is counted in units of 0.000002 USD (five units are 0.00001) and  *)
(* time in units of 12 s (three units are one hundredth of an hour).       *)
(* Strings that the code takes apart or concatenates are sequences of      *)
(* tokens.                                                                 *)
(***************************************************************************)
EXTENDS Integers, Sequences, FiniteSets, TLC

VARIABLES
    entries,              \* entry id -> config entry (host's entry store)
    estate,               \* entry id -> host's ConfigEntryState
    registry,             \* hass.data[DOMAIN]: ids of the stored coordinators
    platforms,            \* ids whose sensor platform has been set up
    data,                 \* entry id -> coordinator.data
    last_update_success,  \* entry id -> coordinator.last_update_success
    inflight,             \* entry id -> number of _async_update_data calls awaiting
    req,                  \* entry id -> the request of the latest fetch
    timer,                \* entry id -> TRUE when the refresh timer is scheduled
    net,                  \* entry id -> response delivered to the awaiting fetch
    hist,                 \* entry id -> outcomes of the last two completed fetches
    now,                  \* wall clock read by the age sensors
    reading,              \* the last sensor state the host read
    flow,                 \* the wizard (one ConfigFlow object)
    flownet               \* the response delivered to the wizard's request

vars == <<entries, estate, registry, platforms, data, last_update_success,
          inflight, req, timer, net, hist, now, reading, flow, flownet>>

coordVars == <<estate, registry, platforms, data, last_update_success,
               inflight, req, timer, net, hist>>
flowVars == <<flow, flownet>>

---------------------------------------------------------------------------
(* Bounds of the model.                                                    *)

MaxEntries == 2
MaxInflight == 2
MaxNow == 3

EntryIds == 1..MaxEntries

---------------------------------------------------------------------------
(* const.py, and strings as sequences of tokens.                           *)

CONF_API_URL == "api_url"
CONF_API_TOKEN == "api_token"
CONF_PROVIDER == "provider"
CONF_PROVIDER_TYPE == "provider_type"
PROVIDER_TYPE_ELECTRIC == "electric"
PROVIDER_TYPE_WATER == "water"

\* str.rstrip("/")
RECURSIVE Rstrip(_)
Rstrip(s) ==
    IF s # <<>> /\ s[Len(s)] = "/" THEN Rstrip(SubSeq(s, 1, Len(s) - 1)) ELSE s

\* str.upper() on the provider keys this model uses
Upper(s) ==
    [i \in DOMAIN s |->
        CASE s[i] = "cemc" -> "CEMC"
          [] s[i] = "nes" -> "NES"
          [] s[i] = "kub" -> "KUB"
          [] s[i] = "whud" -> "WHUD"
          [] OTHER -> s[i]]

EntryDataWithoutToken(api_url, provider_key, provider_type, api_token) ==
    [api_url |-> api_url, provider |-> provider_key,
     provider_type |-> provider_type,
     has_token |-> FALSE, api_token |-> <<>>]

\* the entry data written by the wizard's last step; api_token is stored
\* only when it is non-empty
EntryData(api_url, provider_key, provider_type, api_token) ==
    [api_url |-> api_url, provider |-> provider_key,
     provider_type |-> provider_type,
     has_token |-> api_token # <<>>, api_token |-> api_token]

EntryTitle(provider_type, provider_key) ==
    (IF provider_type = PROVIDER_TYPE_ELECTRIC
     THEN <<"Electric Rates (">> ELSE <<"Water Rates (">>)
    \o Upper(provider_key) \o <<")">>

\* the wizard's fields after its first step (self._api_url, ...)
Wizard(api_url, api_token, provider_type) ==
    [api_url |-> api_url, api_token |-> api_token,
     provider_type |-> provider_type]

UniqueIdWithToken(self, provider_key) ==
    <<self.provider_type>> \o <<"_">> \o provider_key \o <<"_">>
    \o self.api_token

\* f"{self._provider_type}_{provider_key}_{self._api_url}"
UniqueId(self, provider_key) ==
    <<self.provider_type>> \o <<"_">> \o provider_key \o <<"_">>
    \o self.api_url

NoEntry ==
    [data |-> [api_url |-> <<>>, provider |-> <<>>, provider_type |-> "none",
               has_token |-> FALSE, api_token |-> <<>>],
     unique_id |-> <<>>, title |-> <<>>]

\* the entry async_create_entry makes for the wizard self
ConfigEntry(self, provider_key) ==
    [data |-> EntryData(self.api_url, provider_key, self.provider_type,
                        self.api_token),
     unique_id |-> UniqueId(self, provider_key),
     title |-> EntryTitle(self.provider_type, provider_key)]

---------------------------------------------------------------------------
(* JSON values as Python sees them.                                        *)

J(t, v) == [t |-> t, v |-> v]

Absent == J("absent", 0)       \* the key is missing: dict.get gives None
Null == J("null", 0)
JTrue == J("bool", 1)
JFalse == J("bool", 0)
Num(n) == J("num", n)
NumStr(n) == J("numstr", n)    \* a string float() parses, such as "0.09"
BadStr == J("badstr", 0)       \* a non-empty string that is no number and no date
EmptyStr == J("emptystr", 0)
JList(n) == J("list", n)       \* a list of n items
Obj == J("obj", 1)             \* a JSON object with at least one key
EmptyObj == J("obj", 0)
IsoZ(i) == J("isoz", i)        \* "2024-01-01T00:00:00Z"
IsoNaive(i) == J("isonaive", i)\* "2024-01-01T00:00:00"

\* bool(x)
Truthy(x) ==
    CASE x.t \in {"absent", "null", "emptystr"} -> FALSE
      [] x.t \in {"bool", "num", "list", "obj"} -> x.v # 0
      [] OTHER -> TRUE

\* x is None
IsNone(x) == x.t \in {"absent", "null"}

\* x is a dict, so x.get(...) works; on anything else it is an AttributeError
IsDict(x) == x.t = "obj"

\* key in data, for data a dict
HasKey(x) == x.t # "absent"

\* float(x): a number, or TypeError / ValueError
Float(x) ==
    CASE x.t = "num" -> [ok |-> TRUE, v |-> x.v]
      [] x.t = "numstr" -> [ok |-> TRUE, v |-> x.v]
      [] x.t = "bool" -> [ok |-> TRUE, v |-> x.v * 500000]
      [] OTHER -> [ok |-> FALSE, v |-> 0]

\* datetime.fromisoformat(x.replace("Z", "+00:00")), made aware as UTC when
\* naive; anything but an ISO string raises inside the caller's try block
ParseFetchedAt(x) ==
    CASE x.t = "isoz" -> [ok |-> TRUE, v |-> x.v]
      [] x.t = "isonaive" -> [ok |-> TRUE, v |-> x.v]
      [] OTHER -> [ok |-> FALSE, v |-> 0]

\* round(num / den) to the nearest integer (den > 0).  Python rounds the
\* binary float, so a decimal tie falls to either side; the quantities of
\* this model are never ties, and the even neighbour stands in for one.
RoundNearest(num, den) ==
    LET q == num \div den
        r == num - q * den
    IN  IF 2 * r < den THEN q
        ELSE IF 2 * r > den THEN q + 1
        ELSE IF q % 2 = 0 THEN q ELSE q + 1

\* round(num / den, 5), for money in units of 0.000002
Round5(num, den) == 5 * RoundNearest(num, 5 * den)

\* round(seconds / 3600.0, 2) in hundredths of an hour, for a time
\* difference in units of 12 s
RoundHours(delta) == RoundNearest(delta, 3)

---------------------------------------------------------------------------
(* Rate documents.  A document is flattened: rs is the value of            *)
(* rates.residential_standard, energy the value of                         *)
(* rates.residential_standard.energy_rate_usd_per_kwh, and so on; a child  *)
(* of a value that is no object is Absent.                                 *)

NoDoc ==
    [rates |-> Absent, rs |-> Absent, is_present |-> Absent, energy |-> Absent,
     fuel |-> Absent, charge |-> Absent, fetched_at |-> Absent,
     water |-> Absent, use_rate |-> Absent, base_charge |-> Absent,
     sewer |-> Absent, sewer_use_rate |-> Absent, sewer_base_charge |-> Absent]

\* coordinator.data before the first refresh (None)
NoData == [NoDoc EXCEPT !.rates = J("nodata", 0)]

FetchedAtValues == {Absent, Null, IsoZ(0), IsoNaive(1), BadStr, Num(5)}
EnergyValues == {Absent, Null, Num(0), Num(45001), NumStr(45000), BadStr}
FuelValues == {Absent, Num(10000), Null, JList(1)}
ChargeValues == {Absent, Null, Num(6000000), Num(100), BadStr, Obj}
IsPresentValues == {Absent, JFalse, JTrue, Num(1)}
NotAnObject == {Absent, Null, JList(1), BadStr, EmptyObj}

ElectricDocs ==
    {[NoDoc EXCEPT !.rates = r, !.fetched_at = f] :
        r \in NotAnObject, f \in FetchedAtValues}
    \cup
    {[NoDoc EXCEPT !.rates = Obj, !.rs = s, !.fetched_at = f] :
        s \in NotAnObject, f \in FetchedAtValues}
    \cup
    {[NoDoc EXCEPT !.rates = Obj, !.rs = Obj, !.is_present = p, !.energy = e,
                   !.fuel = u, !.charge = c, !.fetched_at = f] :
        p \in IsPresentValues, e \in EnergyValues, u \in FuelValues,
        c \in ChargeValues, f \in {Absent, IsoZ(0)}}

WaterFieldValues == {Absent, Null, Num(2000), NumStr(2000), BadStr}
SewerFieldValues == {Absent, Num(3000), JList(0), BadStr}

WaterDocs ==
    {[NoDoc EXCEPT !.water = w, !.use_rate = wu, !.base_charge = wb,
                   !.sewer = s, !.sewer_use_rate = su, !.sewer_base_charge = sb,
                   !.fetched_at = f] :
        w \in {Obj}, wu \in WaterFieldValues, wb \in WaterFieldValues,
        s \in {Obj}, su \in SewerFieldValues, sb \in SewerFieldValues,
        f \in {Absent, IsoNaive(1)}}
    \cup
    {[NoDoc EXCEPT !.water = w, !.sewer = s, !.fetched_at = f] :
        w \in NotAnObject, s \in NotAnObject, f \in FetchedAtValues}
    \cup
    {[NoDoc EXCEPT !.water = Obj, !.use_rate = wu, !.base_charge = wb,
                   !.sewer = s] :
        wu \in WaterFieldValues, wb \in WaterFieldValues, s \in NotAnObject}
    \cup
    {[NoDoc EXCEPT !.water = w, !.sewer = Obj, !.sewer_use_rate = su,
                   !.sewer_base_charge = sb] :
        w \in NotAnObject, su \in SewerFieldValues, sb \in SewerFieldValues}

---------------------------------------------------------------------------
(* Sensor projections.  A result is a value, Unknown (None) or an          *)
(* exception that escapes native_value.                                    *)

Value(v) == [st |-> "value", v |-> v]
Unknown == [st |-> "unknown", v |-> 0]
Raises == [st |-> "raise", v |-> 0]

\* self.coordinator.data or {}
DataOrEmpty(d) == IF d = NoData THEN NoDoc ELSE d

\* x or {}
OrEmpty(x) == IF Truthy(x) THEN x ELSE EmptyObj

GetResidentialStandardUngated(d) ==
    LET rates == OrEmpty(d.rates)
    IN  IF ~IsDict(rates) THEN "raise"
        ELSE LET rs == OrEmpty(IF rates = EmptyObj THEN Absent ELSE d.rs)
             IN  IF ~IsDict(rs) THEN "raise"
                 ELSE IF rs = EmptyObj THEN "none"
                 ELSE "rs"

\* _get_residential_standard: "raise" (AttributeError from .get on a value
\* that is no dict), "none", or "rs" (the residential_standard object)
get_residential_standard(d) ==
    LET rates == OrEmpty(d.rates)
    IN  IF ~IsDict(rates) THEN "raise"
        ELSE LET rs == OrEmpty(IF rates = EmptyObj THEN Absent ELSE d.rs)
             IN  IF ~IsDict(rs) THEN "raise"
                 ELSE IF rs = EmptyObj \/ ~Truthy(d.is_present) THEN "none"
                 ELSE "rs"

\* x or 0.0
OrZero(x) == IF Truthy(x) THEN x ELSE Num(0)

EnergyRateSensor_native_value(d0) ==
    LET d == DataOrEmpty(d0)
        rs == get_residential_standard(d)
        energy == Float(OrZero(d.energy))
        fuel == Float(OrZero(d.fuel))
    IN  IF rs = "raise" THEN Raises
        ELSE IF rs = "none" THEN Unknown
        ELSE IF energy.ok /\ fuel.ok THEN Value(energy.v + fuel.v)
        ELSE Unknown

FixedChargeSensor_native_value(d0) ==
    LET d == DataOrEmpty(d0)
        rs == get_residential_standard(d)
        val == Float(d.charge)
    IN  IF rs = "raise" THEN Raises
        ELSE IF rs = "none" THEN Unknown
        ELSE IF IsNone(d.charge) THEN Unknown
        ELSE IF val.ok THEN Value(val.v)
        ELSE Unknown

RatesLastRefreshDefaultsToNow(d0) ==
    LET d == DataOrEmpty(d0)
        dt == ParseFetchedAt(d.fetched_at)
    IN  IF ~Truthy(d.fetched_at) THEN Value(now)
        ELSE IF dt.ok THEN Value(dt.v)
        ELSE Unknown

RatesLastRefreshSensor_native_value(d0) ==
    LET d == DataOrEmpty(d0)
        dt == ParseFetchedAt(d.fetched_at)
    IN  IF ~Truthy(d.fetched_at) THEN Unknown
        ELSE IF dt.ok THEN Value(dt.v)
        ELSE Unknown

RatesAgeHoursSensor_native_value(d0, clock) ==
    LET d == DataOrEmpty(d0)
        dt == ParseFetchedAt(d.fetched_at)
    IN  IF ~Truthy(d.fetched_at) THEN Unknown
        ELSE IF dt.ok THEN Value(RoundHours(clock - dt.v))
        ELSE Unknown

\* rs.get(key, 0): the default is used only when the key is missing
GetOrZero(x) == IF HasKey(x) THEN x ELSE Num(0)

EnergyPriceWithoutFuel(d0) ==
    LET d == DataOrEmpty(d0)
        rs == get_residential_standard(d)
        energy == Float(GetOrZero(d.energy))
        fuel == Float(GetOrZero(d.fuel))
    IN  IF rs = "raise" THEN Raises
        ELSE IF rs = "none" THEN Unknown
        ELSE IF ~energy.ok \/ ~fuel.ok THEN Raises
        ELSE Value(Round5(energy.v, 1))

EnergyPriceSensor_native_value(d0) ==
    LET d == DataOrEmpty(d0)
        rs == get_residential_standard(d)
        energy == Float(GetOrZero(d.energy))
        fuel == Float(GetOrZero(d.fuel))
    IN  IF rs = "raise" THEN Raises
        ELSE IF rs = "none" THEN Unknown
        ELSE IF ~energy.ok \/ ~fuel.ok THEN Raises
        ELSE Value(Round5(energy.v + fuel.v, 1))

DailyFixedCostSensor_native_value(d0) ==
    LET d == DataOrEmpty(d0)
        rs == get_residential_standard(d)
        monthly == Float(GetOrZero(d.charge))
    IN  IF rs = "raise" THEN Raises
        ELSE IF rs = "none" THEN Unknown
        ELSE IF ~monthly.ok THEN Raises
        ELSE Value(Round5(monthly.v, 30))

MonthlyFixedCostSensor_native_value(d0) ==
    LET d == DataOrEmpty(d0)
        rs == get_residential_standard(d)
        monthly == Float(GetOrZero(d.charge))
    IN  IF rs = "raise" THEN Raises
        ELSE IF rs = "none" THEN Unknown
        ELSE IF ~monthly.ok THEN Raises
        ELSE Value(monthly.v)

WaterUsageRateSensor_native_value(d0) ==
    LET d == DataOrEmpty(d0)
        water == OrEmpty(d.water)
        use_rate == IF water = EmptyObj THEN Absent ELSE d.use_rate
        val == Float(use_rate)
    IN  IF ~IsDict(water) THEN Raises
        ELSE IF IsNone(use_rate) THEN Unknown
        ELSE IF val.ok THEN Value(val.v)
        ELSE Unknown

WaterBaseChargeSensor_native_value(d0) ==
    LET d == DataOrEmpty(d0)
        water == OrEmpty(d.water)
        base == IF water = EmptyObj THEN Absent ELSE d.base_charge
        val == Float(base)
    IN  IF ~IsDict(water) THEN Raises
        ELSE IF IsNone(base) THEN Unknown
        ELSE IF val.ok THEN Value(val.v)
        ELSE Unknown

SewerUsageRateDefaultsToZero(d0) ==
    LET d == DataOrEmpty(d0)
        val == Float(d.sewer_use_rate)
    IN  IF ~Truthy(d.sewer) THEN Value(0)
        ELSE IF ~IsDict(d.sewer) THEN Raises
        ELSE IF IsNone(d.sewer_use_rate) THEN Unknown
        ELSE IF val.ok THEN Value(val.v)
        ELSE Unknown

SewerUsageRateSensor_native_value(d0) ==
    LET d == DataOrEmpty(d0)
        val == Float(d.sewer_use_rate)
    IN  IF ~Truthy(d.sewer) THEN Unknown
        ELSE IF ~IsDict(d.sewer) THEN Raises
        ELSE IF IsNone(d.sewer_use_rate) THEN Unknown
        ELSE IF val.ok THEN Value(val.v)
        ELSE Unknown

SewerBaseChargeSensor_native_value(d0) ==
    LET d == DataOrEmpty(d0)
        val == Float(d.sewer_base_charge)
    IN  IF ~Truthy(d.sewer) THEN Unknown
        ELSE IF ~IsDict(d.sewer) THEN Raises
        ELSE IF IsNone(d.sewer_base_charge) THEN Unknown
        ELSE IF val.ok THEN Value(val.v)
        ELSE Unknown

WaterRatesLastRefreshSensor_native_value(d0) ==
    LET d == DataOrEmpty(d0)
        dt == ParseFetchedAt(d.fetched_at)
    IN  IF ~Truthy(d.fetched_at) THEN Unknown
        ELSE IF dt.ok THEN Value(dt.v)
        ELSE Unknown

WaterRatesAgeHoursSensor_native_value(d0, clock) ==
    LET d == DataOrEmpty(d0)
        dt == ParseFetchedAt(d.fetched_at)
    IN  IF ~Truthy(d.fetched_at) THEN Unknown
        ELSE IF dt.ok THEN Value(RoundHours(clock - dt.v))
        ELSE Unknown

\* _create_electric_sensors / _create_water_sensors, by the sensors' names
ElectricSensors ==
    {"Total energy rate", "Fixed customer charge", "Rates last refresh",
     "Rates age", "Energy price", "Daily fixed cost", "Monthly fixed cost"}

WaterSensors ==
    {"Water usage rate", "Water base charge", "Sewer usage rate",
     "Sewer base charge", "Water rates last refresh", "Water rates age"}

\* the native_value property of sensor s over document d at time clock
NativeValue(s, d, clock) ==
    CASE s = "Total energy rate" -> EnergyRateSensor_native_value(d)
      [] s = "Fixed customer charge" -> FixedChargeSensor_native_value(d)
      [] s = "Rates last refresh" -> RatesLastRefreshSensor_native_value(d)
      [] s = "Rates age" -> RatesAgeHoursSensor_native_value(d, clock)
      [] s = "Energy price" -> EnergyPriceSensor_native_value(d)
      [] s = "Daily fixed cost" -> DailyFixedCostSensor_native_value(d)
      [] s = "Monthly fixed cost" -> MonthlyFixedCostSensor_native_value(d)
      [] s = "Water usage rate" -> WaterUsageRateSensor_native_value(d)
      [] s = "Water base charge" -> WaterBaseChargeSensor_native_value(d)
      [] s = "Sewer usage rate" -> SewerUsageRateSensor_native_value(d)
      [] s = "Sewer base charge" -> SewerBaseChargeSensor_native_value(d)
      [] s = "Water rates last refresh" ->
             WaterRatesLastRefreshSensor_native_value(d)
      [] s = "Water rates age" -> WaterRatesAgeHoursSensor_native_value(d, clock)

---------------------------------------------------------------------------
(* HTTP requests and responses.                                            *)

USER_AGENT == "ha-utility-costs/1.0"

\* headers = {"User-Agent": ...}; Authorization is added for a truthy token
Headers(has_token, api_token) ==
    [user_agent |-> USER_AGENT,
     authorization |->
        IF has_token /\ api_token # <<>> THEN <<"Bearer ">> \o api_token
        ELSE <<>>]

Request(url, has_token, api_token, timeout) ==
    [url |-> url, headers |-> Headers(has_token, api_token), timeout |-> timeout]

NoReq == [url |-> <<>>, headers |-> Headers(FALSE, <<>>), timeout |-> 0]

\* A response: kind "http" carries a status and a body; "error" is a
\* transport failure and "timeout" the request's timeout, both exceptions
\* raised by session.get.  A body is text that is no JSON (json = FALSE) or a
\* JSON value of shape top; doc holds its members when it is an object.
Body(json, top, doc) == [json |-> json, top |-> top, doc |-> doc]
NotJson == Body(FALSE, Absent, NoDoc)
JsonDoc(d) == Body(TRUE, IF d = NoDoc THEN EmptyObj ELSE Obj, d)
JsonOther(x) == Body(TRUE, x, NoDoc)

Http(status, body) == [kind |-> "http", status |-> status, body |-> body]
TransportError == [kind |-> "error", status |-> 0, body |-> NotJson]
TimedOut == [kind |-> "timeout", status |-> 0, body |-> NotJson]
NoResp == [kind |-> "none", status |-> 0, body |-> NotJson]

\* the documents the polled backend serves in Spec
ElectricDocA ==
    [NoDoc EXCEPT !.rates = Obj, !.rs = Obj, !.is_present = JTrue,
                  !.energy = Num(45000), !.fuel = Num(10000),
                  !.charge = Num(6000000), !.fetched_at = IsoZ(0)]
WaterDocA ==
    [NoDoc EXCEPT !.water = Obj, !.use_rate = Num(2000),
                  !.base_charge = Num(7500000), !.fetched_at = IsoZ(0)]
\* a JSON object with neither a rates nor a water key
DocNoKey == [NoDoc EXCEPT !.fetched_at = IsoZ(1)]

PollDocs(provider_type) ==
    {IF provider_type = PROVIDER_TYPE_WATER THEN WaterDocA ELSE ElectricDocA,
     DocNoKey}

PollResponses(provider_type) ==
    {TransportError, TimedOut, Http(200, NotJson), Http(200, JsonOther(JList(1)))}
    \cup {Http(500, JsonDoc(d)) : d \in {DocNoKey}}
    \cup {Http(200, JsonDoc(d)) : d \in PollDocs(provider_type)}

---------------------------------------------------------------------------
(* coordinator.py                                                          *)

DEFAULT_SCAN_INTERVAL == 900

ElectricCoordinatorInitUnstripped(entry) ==
    [api_url |-> entry.data.api_url,
     has_token |-> entry.data.has_token,
     api_token |-> entry.data.api_token,
     provider |-> entry.data.provider,
     update_interval |-> DEFAULT_SCAN_INTERVAL]

\* ElectricRatesCoordinator.__init__ / WaterRatesCoordinator.__init__
ElectricRatesCoordinator_init(entry) ==
    [api_url |-> Rstrip(entry.data.api_url),
     has_token |-> entry.data.has_token,
     api_token |-> entry.data.api_token,
     provider |-> entry.data.provider,
     update_interval |-> DEFAULT_SCAN_INTERVAL]

WaterRatesCoordinator_init(entry) ==
    [api_url |-> Rstrip(entry.data.api_url),
     has_token |-> entry.data.has_token,
     api_token |-> entry.data.api_token,
     provider |-> entry.data.provider,
     update_interval |-> DEFAULT_SCAN_INTERVAL]

\* the request _async_update_data issues
ElectricRequest(c) ==
    Request(c.api_url \o <<"/rates/electric/">> \o c.provider \o <<"/residential">>,
            c.has_token, c.api_token, 30)

WaterRequest(c) ==
    Request(c.api_url \o <<"/water/rates/">> \o c.provider,
            c.has_token, c.api_token, 30)

\* what _async_update_data does with the response: UpdateFailed, or the
\* parsed body
UpdateFailed == [ok |-> FALSE, data |-> NoData]
Fetched(d) == [ok |-> TRUE, data |-> d]

ElectricUpdateDataUnchecked(resp) ==
    IF resp.kind # "http" THEN UpdateFailed
    ELSE IF ~resp.body.json THEN UpdateFailed
    ELSE IF ~IsDict(resp.body.top) THEN UpdateFailed
    ELSE Fetched(resp.body.doc)

ElectricUpdateDataInverted(resp) ==
    IF resp.kind # "http" THEN UpdateFailed
    ELSE IF resp.status # 200 THEN UpdateFailed
    ELSE IF ~resp.body.json THEN UpdateFailed
    ELSE IF IsDict(resp.body.top) THEN UpdateFailed
    ELSE Fetched(resp.body.doc)

ElectricRatesCoordinator_async_update_data(resp) ==
    IF resp.kind # "http" THEN UpdateFailed
    ELSE IF resp.status # 200 THEN UpdateFailed
    ELSE IF ~resp.body.json THEN UpdateFailed
    ELSE IF ~IsDict(resp.body.top) THEN UpdateFailed
    ELSE Fetched(resp.body.doc)

WaterRatesCoordinator_async_update_data(resp) ==
    IF resp.kind # "http" THEN UpdateFailed
    ELSE IF resp.status # 200 THEN UpdateFailed
    ELSE IF ~resp.body.json THEN UpdateFailed
    ELSE IF ~IsDict(resp.body.top) THEN UpdateFailed
    ELSE Fetched(resp.body.doc)

---------------------------------------------------------------------------
(* The host's DataUpdateCoordinator, as the integration relies on it.      *)

\* async_config_entry_first_refresh raises when the first update fails
HostFirstRefreshRaises(outcome) == ~outcome.ok

\* a refresh stores the fetched document, or keeps the old one on failure
HostRefreshData(old, outcome) == IF outcome.ok THEN outcome.data ELSE old

\* a refresh sets last_update_success to the update's outcome
HostRefreshSuccess(outcome) == outcome.ok

HostTimerStaysScheduled == TRUE

\* the refresh timer is unscheduled when it fires ...
HostTimerOnFire == FALSE

\* ... and scheduled again when the refresh has finished, while the
\* coordinator has listeners (the entry's sensors)
HostTimerOnFinish(has_listeners) == has_listeners

---------------------------------------------------------------------------
(* __init__.py                                                             *)

IsWater(entry) == entry.data.provider_type = PROVIDER_TYPE_WATER

\* async_setup_entry, lines 35-41: the coordinator for the entry's type
Coordinator(entry) ==
    IF IsWater(entry) THEN WaterRatesCoordinator_init(entry)
    ELSE ElectricRatesCoordinator_init(entry)

FetchRequest(entry) ==
    IF IsWater(entry) THEN WaterRequest(Coordinator(entry))
    ELSE ElectricRequest(Coordinator(entry))

UpdateData(entry, resp) ==
    IF IsWater(entry) THEN WaterRatesCoordinator_async_update_data(resp)
    ELSE ElectricRatesCoordinator_async_update_data(resp)

SetupSwallowsError(raised) ==
    [propagates |-> FALSE, stored |-> TRUE, forwarded |-> TRUE]

\* async_setup_entry, lines 43-54: an exception of the first refresh is
\* logged and raised again; otherwise the coordinator is stored and the
\* sensor platform set up
SetupResult(raised) ==
    IF raised
    THEN [propagates |-> TRUE, stored |-> FALSE, forwarded |-> FALSE]
    ELSE [propagates |-> FALSE, stored |-> TRUE, forwarded |-> TRUE]

\* hist keeps the outcomes of the last two completed fetches
Outcome(outcome) == IF outcome.ok THEN "ok" ELSE "failed"
Remember(h, o) == IF Len(h) < 2 THEN Append(h, o) ELSE <<h[2], o>>

\* async_setup_entry up to its await: the coordinator is created and the
\* first refresh issues its request
SetupStart(e) ==
    /\ entries[e] # NoEntry
    /\ estate[e] \in {"not_loaded", "setup_retry"}
    /\ estate' = [estate EXCEPT ![e] = "setup_in_progress"]
    /\ data' = [data EXCEPT ![e] = NoData]
    /\ last_update_success' = [last_update_success EXCEPT ![e] = TRUE]
    /\ inflight' = [inflight EXCEPT ![e] = 1]
    /\ req' = [req EXCEPT ![e] = FetchRequest(entries[e])]
    /\ hist' = [hist EXCEPT ![e] = <<>>]
    /\ UNCHANGED <<entries, registry, platforms, timer, net, now, reading,
                   flow, flownet>>

\* the backend's answer reaches the awaiting session.get
Deliver(e, resp) ==
    /\ inflight[e] > 0
    /\ net[e] = NoResp
    /\ net' = [net EXCEPT ![e] = resp]
    /\ UNCHANGED <<entries, estate, registry, platforms, data,
                   last_update_success, inflight, req, timer, hist, now,
                   reading, flow, flownet>>

\* async_setup_entry after its await
SetupFinish(e) ==
    /\ estate[e] = "setup_in_progress"
    /\ net[e] # NoResp
    /\ LET outcome == UpdateData(entries[e], net[e])
           res == SetupResult(HostFirstRefreshRaises(outcome))
       IN  /\ data' = [data EXCEPT ![e] = HostRefreshData(@, outcome)]
           /\ last_update_success' =
                  [last_update_success EXCEPT ![e] = HostRefreshSuccess(outcome)]
           /\ registry' = IF res.stored THEN registry \cup {e} ELSE registry
           /\ platforms' = IF res.forwarded THEN platforms \cup {e} ELSE platforms
           /\ timer' = [timer EXCEPT ![e] = HostTimerOnFinish(res.forwarded)]
           /\ estate' = [estate EXCEPT
                  ![e] = IF res.propagates THEN "setup_retry" ELSE "loaded"]
           /\ hist' = [hist EXCEPT ![e] = Remember(@, Outcome(outcome))]
    /\ inflight' = [inflight EXCEPT ![e] = 0]
    /\ net' = [net EXCEPT ![e] = NoResp]
    /\ UNCHANGED <<entries, req, now, reading, flow, flownet>>

\* the refresh timer fires: _async_update_data up to its await
Tick(e) ==
    /\ e \in registry
    /\ timer[e]
    /\ inflight[e] < MaxInflight
    /\ timer' = [timer EXCEPT ![e] = HostTimerOnFire]
    /\ inflight' = [inflight EXCEPT ![e] = @ + 1]
    /\ req' = [req EXCEPT ![e] = FetchRequest(entries[e])]
    /\ UNCHANGED <<entries, estate, registry, platforms, data,
                   last_update_success, net, hist, now, reading, flow, flownet>>

\* _async_update_data after its await, and the host's bookkeeping
PollFinish(e) ==
    /\ e \in registry
    /\ estate[e] = "loaded"
    /\ net[e] # NoResp
    /\ LET outcome == UpdateData(entries[e], net[e])
       IN  /\ data' = [data EXCEPT ![e] = HostRefreshData(@, outcome)]
           /\ last_update_success' =
                  [last_update_success EXCEPT ![e] = HostRefreshSuccess(outcome)]
           /\ hist' = [hist EXCEPT ![e] = Remember(@, Outcome(outcome))]
    /\ timer' = [timer EXCEPT ![e] = HostTimerOnFinish(e \in platforms)]
    /\ inflight' = [inflight EXCEPT ![e] = @ - 1]
    /\ net' = [net EXCEPT ![e] = NoResp]
    /\ UNCHANGED <<entries, estate, registry, platforms, req, now, reading,
                   flow, flownet>>

\* async_unload_entry: the platforms are unloaded and, when that worked,
\* the coordinator is dropped from the registry
Unload(e, unload_ok) ==
    /\ estate[e] = "loaded"
    /\ IF unload_ok
       THEN /\ registry' = registry \ {e}
            /\ platforms' = platforms \ {e}
            /\ estate' = [estate EXCEPT ![e] = "not_loaded"]
            /\ timer' = [timer EXCEPT ![e] = FALSE]
            /\ inflight' = [inflight EXCEPT ![e] = 0]
            /\ net' = [net EXCEPT ![e] = NoResp]
            /\ data' = [data EXCEPT ![e] = NoData]
            /\ hist' = [hist EXCEPT ![e] = <<>>]
            /\ UNCHANGED <<last_update_success, req>>
       ELSE UNCHANGED coordVars
    /\ UNCHANGED <<entries, now, reading, flow, flownet>>

\* ConfigFlow.__init__, before the host shows the first form
NoFlow ==
    [step |-> "none", api_url |-> <<>>, api_token |-> <<>>,
     provider_type |-> "none", providers |-> {}, errors |-> "",
     req |-> NoReq, label |-> <<>>, provider_key |-> <<>>]

\* A response to the wizard: the body carries, besides doc, the value of
\* its "providers" member and, when that is a list, the list's items.
FlowBody(json, top, doc, providers, items) ==
    [json |-> json, top |-> top, doc |-> doc, providers |-> providers,
     items |-> items]
FlowNotJson == FlowBody(FALSE, Absent, NoDoc, Absent, <<>>)
NoFlowResp == [kind |-> "none", status |-> 0, body |-> FlowNotJson]

NoReading ==
    [entry |-> 0, sensor |-> "", available |-> FALSE, res |-> Unknown]

\* the config entries of Spec: entry e is electric when e is odd and water
\* when it is even, as the wizard would have created them
SpecEntry(e) ==
    IF e % 2 = 1
    THEN ConfigEntry(Wizard(<<"http://h", "/">>, <<"tok">>,
                            PROVIDER_TYPE_ELECTRIC), <<"cemc">>)
    ELSE ConfigEntry(Wizard(<<"http://h">>, <<>>, PROVIDER_TYPE_WATER),
                     <<"whud">>)

CoordInit ==
    /\ estate = [e \in EntryIds |-> "not_loaded"]
    /\ registry = {}
    /\ platforms = {}
    /\ data = [e \in EntryIds |-> NoData]
    /\ last_update_success = [e \in EntryIds |-> TRUE]
    /\ inflight = [e \in EntryIds |-> 0]
    /\ req = [e \in EntryIds |-> NoReq]
    /\ timer = [e \in EntryIds |-> FALSE]
    /\ net = [e \in EntryIds |-> NoResp]
    /\ hist = [e \in EntryIds |-> <<>>]

Init ==
    /\ entries = [e \in EntryIds |-> SpecEntry(e)]
    /\ CoordInit
    /\ now = 0
    /\ reading = NoReading
    /\ flow = NoFlow
    /\ flownet = NoFlowResp

Next ==
    \/ \E e \in EntryIds : SetupStart(e)
    \/ \E e \in EntryIds :
           \E resp \in PollResponses(entries[e].data.provider_type) :
               Deliver(e, resp)
    \/ \E e \in EntryIds : SetupFinish(e)
    \/ \E e \in EntryIds : Tick(e)
    \/ \E e \in EntryIds : PollFinish(e)
    \/ \E e \in EntryIds : \E unload_ok \in BOOLEAN : Unload(e, unload_ok)

Spec == Init /\ [][Next]_vars

---------------------------------------------------------------------------
(* What the host shows for a sensor.                                       *)

\* BaseElectricSensor.available / BaseWaterSensor.available
BaseElectricSensor_available(e) == last_update_success[e]
BaseWaterSensor_available(e) == last_update_success[e]

\* sensor.async_setup_entry: the sensors created for the entry's type
SensorsOf(entry) ==
    IF entry.data.provider_type = PROVIDER_TYPE_ELECTRIC
    THEN ElectricSensors ELSE WaterSensors

Available(e) ==
    IF entries[e].data.provider_type = PROVIDER_TYPE_ELECTRIC
    THEN BaseElectricSensor_available(e) ELSE BaseWaterSensor_available(e)

Unavailable == [st |-> "unavailable", v |-> 0]

\* the state the host publishes: "unavailable" unless the entity is
\* available, else its native_value
HostState(e, s) ==
    IF Available(e) THEN NativeValue(s, data[e], now) ELSE Unavailable

---------------------------------------------------------------------------
(* Claims about setup and polling, checked under Spec.                     *)

\* a fetch that failed in transport, by status or in parsing its body
FetchFailure(resp) ==
    \/ resp.kind \in {"error", "timeout"}
    \/ resp.kind = "http" /\ resp.status # 200
    \/ resp.kind = "http" /\ ~resp.body.json

\* a 200 response whose body is a JSON object
FetchSuccess(resp) ==
    resp.kind = "http" /\ resp.status = 200 /\ resp.body.json
    /\ IsDict(resp.body.top)

\* the step in which the polling fetch of entry e completes
PollCompletes(e) ==
    /\ estate[e] = "loaded" /\ estate'[e] = "loaded"
    /\ net[e] # NoResp /\ net'[e] = NoResp

\* C1: a polling fetch that fails (transport error, timeout, non-200 status
\* or a body that is no JSON) leaves the cached document as it was before
\* the fetch and sets last_update_success to false.
C1_FailedPollKeepsDocument ==
    [][\A e \in EntryIds :
         (PollCompletes(e) /\ FetchFailure(net[e])) =>
             (data'[e] = data[e] /\ last_update_success'[e] = FALSE)]_vars

\* a poll has failed after a successful fetch and the document is still cached
C1_Witness ==
    \E e \in EntryIds :
        /\ estate[e] = "loaded"
        /\ hist[e] = <<"ok", "failed">>
        /\ data[e] \in PollDocs(entries[e].data.provider_type)
        /\ ~last_update_success[e]

\* C2 (as claimed): after a poll failed following a successful fetch, every
\* sensor of the entry is available and shows the value projected from the
\* cached document.
C2_SensorsSurviveFailedPoll ==
    \A e \in EntryIds :
        (estate[e] = "loaded" /\ hist[e] = <<"ok", "failed">>) =>
            \A s \in SensorsOf(entries[e]) :
                /\ Available(e)
                /\ HostState(e, s) = NativeValue(s, data[e], now)

\* C3: a failed first fetch propagates out of async_setup_entry, stores no
\* coordinator and sets up no platform; every coordinator in the registry
\* holds a document of a successful fetch.
C3_RegistryHoldsFetchedDocuments ==
    \A e \in EntryIds :
        /\ e \in registry =>
               data[e] \in PollDocs(entries[e].data.provider_type)
        /\ e \in platforms => e \in registry
        /\ estate[e] = "setup_retry" =>
               (e \notin registry /\ e \notin platforms /\ data[e] = NoData)

\* the first fetch of an entry has failed and setup has raised
C3_Witness ==
    \E e \in EntryIds :
        estate[e] = "setup_retry" /\ hist[e] = <<"failed">>

\* C4: at most one fetch is in flight for each entry.
C4_AtMostOneFetchInFlight ==
    \A e \in EntryIds : inflight[e] <= 1

\* a polling fetch is in flight and its response has not been handled yet
C4_Witness ==
    \E e \in EntryIds :
        estate[e] = "loaded" /\ inflight[e] = 1 /\ net[e] # NoResp

\* C5: when a poll completes, failed or not, the coordinator is idle again
\* with its timer scheduled, an idle coordinator's next tick can fire, and a
\* poll that succeeds stores the fetched document and sets
\* last_update_success to true.
C5_PollingContinuesAfterFailure ==
    [][\A e \in EntryIds :
         /\ PollCompletes(e) =>
                /\ e \in registry' /\ inflight'[e] = 0 /\ timer'[e]
                /\ FetchSuccess(net[e]) =>
                       (data'[e] = net[e].body.doc /\ last_update_success'[e])
         /\ (estate[e] = "loaded" /\ inflight[e] = 0) => ENABLED Tick(e)]_vars

\* a poll failed and the next one succeeded
C5_Witness ==
    \E e \in EntryIds :
        /\ estate[e] = "loaded"
        /\ hist[e] = <<"failed", "ok">>
        /\ last_update_success[e]
        /\ inflight[e] = 0

---------------------------------------------------------------------------
(* SpecSensor: the host reads the sensors of one loaded entry whose        *)
(* coordinator has cached any JSON object the backend may have served.     *)

DocsOf(entry) ==
    IF entry.data.provider_type = PROVIDER_TYPE_ELECTRIC
    THEN ElectricDocs ELSE WaterDocs

SensorInit ==
    /\ entries = [e \in EntryIds |-> SpecEntry(e)]
    /\ \E e0 \in EntryIds :
        /\ estate = [e \in EntryIds |-> IF e = e0 THEN "loaded" ELSE "not_loaded"]
        /\ registry = {e0}
        /\ platforms = {e0}
        /\ data \in {[e \in EntryIds |-> IF e = e0 THEN d ELSE NoData] :
                        d \in DocsOf(SpecEntry(e0))}
        /\ timer = [e \in EntryIds |-> e = e0]
        /\ hist = [e \in EntryIds |-> IF e = e0 THEN <<"ok">> ELSE <<>>]
        /\ req = [e \in EntryIds |->
                     IF e = e0 THEN FetchRequest(SpecEntry(e)) ELSE NoReq]
    /\ last_update_success = [e \in EntryIds |-> TRUE]
    /\ inflight = [e \in EntryIds |-> 0]
    /\ net = [e \in EntryIds |-> NoResp]
    /\ now = 0
    /\ reading = NoReading
    /\ flow = NoFlow
    /\ flownet = NoFlowResp

\* the host reads available and native_value of sensor s of entry e
ReadSensor(e, s) ==
    /\ e \in platforms
    /\ s \in SensorsOf(entries[e])
    /\ reading' = [entry |-> e, sensor |-> s, available |-> Available(e),
                   res |-> NativeValue(s, data[e], now)]
    /\ UNCHANGED <<entries, coordVars, now, flow, flownet>>

\* time passes
ClockTick ==
    /\ now < MaxNow
    /\ now' = now + 1
    /\ UNCHANGED <<entries, coordVars, reading, flow, flownet>>

SensorNext ==
    \/ \E e \in EntryIds : \E s \in ElectricSensors \cup WaterSensors :
           ReadSensor(e, s)
    \/ ClockTick

SpecSensor == SensorInit /\ [][SensorNext]_vars

\* the document the last reading was taken from
ReadDoc == IF reading.entry = 0 THEN NoDoc ELSE data[reading.entry]

\* C6 (as claimed): reading native_value of any sensor over any cached
\* document gives a value or Unknown and never raises.
C6_NativeValueNeverRaises ==
    reading.res.st \in {"value", "unknown"}

\* C7 (as claimed): with residential_standard.is_present truthy, a sensor
\* whose source field is missing from the document reads Unknown.
C7_MissingFieldIsUnknown ==
    (/\ reading.entry # 0
     /\ ReadDoc.rates = Obj /\ ReadDoc.rs = Obj /\ Truthy(ReadDoc.is_present)
     /\ \/ /\ reading.sensor \in {"Total energy rate", "Energy price"}
           /\ (ReadDoc.energy = Absent \/ ReadDoc.fuel = Absent)
        \/ /\ reading.sensor \in {"Fixed customer charge", "Daily fixed cost",
                                  "Monthly fixed cost"}
           /\ ReadDoc.charge = Absent)
    => reading.res = Unknown

---------------------------------------------------------------------------
(* config_flow.py                                                          *)

\* const.py: the static provider tables, label -> key
STATIC_ELECTRIC_PROVIDERS ==
    {[label |-> <<"CEMC">>, key |-> <<"cemc">>],
     [label |-> <<"NES">>, key |-> <<"nes">>],
     [label |-> <<"KUB">>, key |-> <<"kub">>]}

STATIC_WATER_PROVIDERS == {[label |-> <<"WHUD">>, key |-> <<"whud">>]}

\* an item of the backend's providers list: an object with a key and a
\* name (<<>> when missing or empty), or something that is no object
Item(key, name) == [isdict |-> TRUE, key |-> key, name |-> name]
NotAnItem == [isdict |-> FALSE, key |-> <<>>, name |-> <<>>]

\* providers[name] = key: a later item replaces an earlier one of its name
SetItem(providers, name, key) ==
    {p \in providers : p.label # name} \cup {[label |-> name, key |-> key]}

\* the loop over items in _fetch_*_providers (every item is an object)
RECURSIVE CollectProviders(_, _)
CollectProviders(items, providers) ==
    IF items = <<>> THEN providers
    ELSE LET item == Head(items)
             key == item.key
             name == IF item.name # <<>> THEN item.name ELSE key
         IN  CollectProviders(Tail(items),
                 IF key # <<>> THEN SetItem(providers, name, key)
                 ELSE providers)

\* self._providers.get(label): <<>> stands for None
GetProvider(providers, label) ==
    IF \E p \in providers : p.label = label
    THEN (CHOOSE p \in providers : p.label = label).key
    ELSE <<>>

\* what a _fetch_*_providers or _validate_*_provider call ends in
Returned(x) == [how |-> "return", value |-> x]
RaisedValueError == [how |-> "ValueError", value |-> {}]
RaisedOther == [how |-> "Exception", value |-> {}]

ElectricProvidersRequest(api_url, api_token) ==
    Request(Rstrip(api_url) \o <<"/providers">>, TRUE, api_token, 10)

WaterProvidersRequest(api_url, api_token) ==
    Request(Rstrip(api_url) \o <<"/water/providers">>, TRUE, api_token, 10)

\* _fetch_electric_providers, from the response on: every failure of the
\* request is a ValueError (json's decode error is one, the others are
\* wrapped); a body of another structure raises an AttributeError or a
\* TypeError from lines 51-56
fetch_electric_providers(resp) ==
    IF resp.kind # "http" THEN RaisedValueError
    ELSE IF resp.status # 200 THEN RaisedValueError
    ELSE IF ~resp.body.json THEN RaisedValueError
    ELSE IF ~IsDict(resp.body.top) THEN RaisedOther
    ELSE IF ~Truthy(resp.body.providers)
         THEN Returned(STATIC_ELECTRIC_PROVIDERS)
    ELSE IF resp.body.providers.t # "list" THEN RaisedOther
    ELSE IF \E i \in DOMAIN resp.body.items : ~resp.body.items[i].isdict
         THEN RaisedOther
    ELSE LET providers == CollectProviders(resp.body.items, {})
         IN  IF providers = {} THEN Returned(STATIC_ELECTRIC_PROVIDERS)
             ELSE Returned(providers)

fetch_water_providers(resp) ==
    IF resp.kind # "http" THEN RaisedValueError
    ELSE IF resp.status # 200 THEN RaisedValueError
    ELSE IF ~resp.body.json THEN RaisedValueError
    ELSE IF ~IsDict(resp.body.top) THEN RaisedOther
    ELSE IF ~Truthy(resp.body.providers)
         THEN Returned(STATIC_WATER_PROVIDERS)
    ELSE IF resp.body.providers.t # "list" THEN RaisedOther
    ELSE IF \E i \in DOMAIN resp.body.items : ~resp.body.items[i].isdict
         THEN RaisedOther
    ELSE LET providers == CollectProviders(resp.body.items, {})
         IN  IF providers = {} THEN Returned(STATIC_WATER_PROVIDERS)
             ELSE Returned(providers)

ElectricValidationRequest(api_url, provider_key, api_token) ==
    Request(Rstrip(api_url) \o <<"/rates/electric/">> \o provider_key
                \o <<"/residential">>,
            TRUE, api_token, 10)

WaterValidationRequest(api_url, provider_key, api_token) ==
    Request(Rstrip(api_url) \o <<"/water/rates/">> \o provider_key,
            TRUE, api_token, 10)

ValidateElectricWithoutKeyCheck(resp, provider_key) ==
    IF resp.kind # "http" THEN RaisedValueError
    ELSE IF resp.status # 200 THEN RaisedValueError
    ELSE IF ~resp.body.json THEN RaisedValueError
    ELSE IF ~IsDict(resp.body.top) THEN RaisedOther
    ELSE Returned({EntryTitle(PROVIDER_TYPE_ELECTRIC, provider_key)})

\* _validate_electric_provider, from the response on.  On a body that is
\* no object, "rates" in data is false (ValueError), a TypeError, or true,
\* and then data.get raises an AttributeError.
validate_electric_provider(resp, provider_key) ==
    IF resp.kind # "http" THEN RaisedValueError
    ELSE IF resp.status # 200 THEN RaisedValueError
    ELSE IF ~resp.body.json THEN RaisedValueError
    ELSE IF ~IsDict(resp.body.top) THEN RaisedOther
    ELSE IF ~HasKey(resp.body.doc.rates) THEN RaisedValueError
    ELSE Returned({EntryTitle(PROVIDER_TYPE_ELECTRIC, provider_key)})

ValidateWaterWithoutStatusCheck(resp, provider_key) ==
    IF resp.kind # "http" THEN RaisedValueError
    ELSE IF ~resp.body.json THEN RaisedValueError
    ELSE IF ~IsDict(resp.body.top) THEN RaisedOther
    ELSE IF ~HasKey(resp.body.doc.water) THEN RaisedValueError
    ELSE Returned({EntryTitle(PROVIDER_TYPE_WATER, provider_key)})

validate_water_provider(resp, provider_key) ==
    IF resp.kind # "http" THEN RaisedValueError
    ELSE IF resp.status # 200 THEN RaisedValueError
    ELSE IF ~resp.body.json THEN RaisedValueError
    ELSE IF ~IsDict(resp.body.top) THEN RaisedOther
    ELSE IF ~HasKey(resp.body.doc.water) THEN RaisedValueError
    ELSE Returned({EntryTitle(PROVIDER_TYPE_WATER, provider_key)})

\* the host's _abort_if_unique_id_configured: an entry has this unique id
UniqueIdConfigured(unique_id) ==
    \E e \in DOMAIN entries :
        entries[e] # NoEntry /\ entries[e].unique_id = unique_id

\* the id the host gives the next entry
FreeIds == {e \in DOMAIN entries : entries[e] = NoEntry}
NextEntryId == CHOOSE e \in FreeIds : \A o \in FreeIds : e <= o

\* what the user may type and what the backend may answer in SpecFlow
FlowUrls == {<<"http://h">>, <<"http://h", "/">>}
FlowTokens == {<<>>, <<"tok">>}
ProviderTypes == {PROVIDER_TYPE_ELECTRIC, PROVIDER_TYPE_WATER}
OtherLabel == <<"OTHER">>

FlowHttp(status, body) == [kind |-> "http", status |-> status, body |-> body]
FlowError == [kind |-> "error", status |-> 0, body |-> FlowNotJson]
FlowTimedOut == [kind |-> "timeout", status |-> 0, body |-> FlowNotJson]
ProvidersBody(providers, items) == FlowBody(TRUE, Obj, NoDoc, providers, items)
DocBody(d) ==
    FlowBody(TRUE, IF d = NoDoc THEN EmptyObj ELSE Obj, d, Absent, <<>>)
OtherBody(x) == FlowBody(TRUE, x, NoDoc, Absent, <<>>)

FailedResponses ==
    {FlowError, FlowTimedOut, FlowHttp(401, FlowNotJson),
     FlowHttp(404, FlowNotJson), FlowHttp(500, DocBody(ElectricDocA)),
     FlowHttp(500, DocBody(WaterDocA)), FlowHttp(200, FlowNotJson)}

DiscoveryResponses(provider_type) ==
    LET key == IF provider_type = PROVIDER_TYPE_ELECTRIC
               THEN <<"cemc">> ELSE <<"whud">>
    IN  FailedResponses
        \cup {FlowHttp(200, OtherBody(JList(1))),
              FlowHttp(200, ProvidersBody(Absent, <<>>)),
              FlowHttp(200, ProvidersBody(Num(5), <<>>)),
              FlowHttp(200, ProvidersBody(JList(1), <<NotAnItem>>)),
              FlowHttp(200, ProvidersBody(JList(1), <<Item(<<>>, <<"N">>)>>)),
              FlowHttp(200, ProvidersBody(JList(1), <<Item(key, <<>>)>>)),
              FlowHttp(200, ProvidersBody(JList(2),
                  <<Item(key, <<"A">>), Item(key, <<"B">>)>>))}

ValidationResponses ==
    FailedResponses
    \cup {FlowHttp(200, OtherBody(JList(1))), FlowHttp(200, OtherBody(Null)),
          FlowHttp(200, DocBody(DocNoKey)),
          FlowHttp(200, DocBody(ElectricDocA)),
          FlowHttp(200, DocBody(WaterDocA)),
          FlowHttp(200, DocBody([NoDoc EXCEPT !.rates = Null, !.water = Null]))}

\* the host starts a wizard: async_step_user without input shows the form
FlowStart ==
    /\ flow.step \in {"none", "created", "aborted"}
    /\ FreeIds # {}
    /\ flow' = [NoFlow EXCEPT !.step = "user"]
    /\ flownet' = NoFlowResp
    /\ UNCHANGED <<entries, coordVars, now, reading>>

\* async_step_user with input, up to the await of _fetch_*_providers
StepUserSubmit(api_url, api_token, provider_type) ==
    /\ flow.step = "user"
    /\ flow' = [flow EXCEPT
           !.api_url = api_url, !.api_token = api_token,
           !.provider_type = provider_type,
           !.step = "user_fetch",
           !.errors = "",
           !.req = IF provider_type = PROVIDER_TYPE_ELECTRIC
                   THEN ElectricProvidersRequest(api_url, api_token)
                   ELSE WaterProvidersRequest(api_url, api_token)]
    /\ UNCHANGED <<entries, coordVars, now, reading, flownet>>

\* the backend's answer reaches the wizard's awaiting request
FlowDeliver(resp) ==
    /\ flow.step \in {"user_fetch", "provider_validate"}
    /\ flownet = NoFlowResp
    /\ flownet' = resp
    /\ UNCHANGED <<entries, coordVars, now, reading, flow>>

\* async_step_user after the await: a ValueError shows the form of step 1
\* again with cannot_connect, any other exception falls back to the static
\* table, and the wizard goes on to the form of step 2
StepUserFinish ==
    /\ flow.step = "user_fetch"
    /\ flownet # NoFlowResp
    /\ LET got == IF flow.provider_type = PROVIDER_TYPE_ELECTRIC
                  THEN fetch_electric_providers(flownet)
                  ELSE fetch_water_providers(flownet)
       IN  flow' =
             IF got.how = "ValueError"
             THEN [flow EXCEPT !.step = "user", !.errors = "cannot_connect"]
             ELSE IF got.how = "Exception"
             THEN [flow EXCEPT
                     !.step = "provider",
                     !.providers =
                         IF flow.provider_type = PROVIDER_TYPE_ELECTRIC
                         THEN STATIC_ELECTRIC_PROVIDERS
                         ELSE STATIC_WATER_PROVIDERS]
             ELSE [flow EXCEPT !.step = "provider", !.providers = got.value]
    /\ flownet' = NoFlowResp
    /\ UNCHANGED <<entries, coordVars, now, reading>>

\* async_step_provider with input, up to the await of _validate_*_provider:
\* a label that is not offered shows the form again with invalid_provider
StepProviderSubmit(label) ==
    /\ flow.step = "provider"
    /\ LET provider_key == GetProvider(flow.providers, label)
       IN  flow' =
             IF provider_key = <<>>
             THEN [flow EXCEPT !.label = label, !.provider_key = <<>>,
                               !.errors = "invalid_provider"]
             ELSE [flow EXCEPT
                     !.label = label, !.provider_key = provider_key,
                     !.errors = "",
                     !.step = "provider_validate",
                     !.req =
                         IF flow.provider_type = PROVIDER_TYPE_ELECTRIC
                         THEN ElectricValidationRequest(
                                  flow.api_url, provider_key, flow.api_token)
                         ELSE WaterValidationRequest(
                                  flow.api_url, provider_key, flow.api_token)]
    /\ UNCHANGED <<entries, coordVars, now, reading, flownet>>

\* async_step_provider after the await: an exception shows the form again
\* with cannot_connect; otherwise the unique id is set, the wizard aborts
\* when it is configured already, and else the entry is created
StepProviderFinish ==
    /\ flow.step = "provider_validate"
    /\ flownet # NoFlowResp
    /\ LET info == IF flow.provider_type = PROVIDER_TYPE_ELECTRIC
                   THEN validate_electric_provider(flownet, flow.provider_key)
                   ELSE validate_water_provider(flownet, flow.provider_key)
       IN  IF info.how # "return"
           THEN /\ flow' = [flow EXCEPT !.step = "provider",
                                        !.errors = "cannot_connect"]
                /\ UNCHANGED entries
           ELSE IF UniqueIdConfigured(UniqueId(flow, flow.provider_key))
           THEN /\ flow' = [flow EXCEPT !.step = "aborted"]
                /\ UNCHANGED entries
           ELSE /\ flow' = [flow EXCEPT !.step = "created"]
                /\ entries' = [entries EXCEPT
                       ![NextEntryId] = ConfigEntry(flow, flow.provider_key)]
    /\ flownet' = NoFlowResp
    /\ UNCHANGED <<coordVars, now, reading>>

FlowInit ==
    /\ entries = [e \in EntryIds |-> NoEntry]
    /\ CoordInit
    /\ now = 0
    /\ reading = NoReading
    /\ flow = NoFlow
    /\ flownet = NoFlowResp

FlowNext ==
    \/ FlowStart
    \/ \E api_url \in FlowUrls, api_token \in FlowTokens,
          provider_type \in ProviderTypes :
           StepUserSubmit(api_url, api_token, provider_type)
    \/ \E resp \in DiscoveryResponses(flow.provider_type) :
           flow.step = "user_fetch" /\ FlowDeliver(resp)
    \/ \E resp \in ValidationResponses :
           flow.step = "provider_validate" /\ FlowDeliver(resp)
    \/ StepUserFinish
    \/ \E label \in {p.label : p \in flow.providers} \cup {OtherLabel} :
           StepProviderSubmit(label)
    \/ StepProviderFinish

SpecFlow == FlowInit /\ [][FlowNext]_vars

-----------------------------------------------------------------------------
(* The wizard's claims, under SpecFlow.                                    *)

Configured == {e \in EntryIds : entries[e] # NoEntry}
Triple(d) == <<d.provider_type, d.provider, d.api_url>>

\* C8: after any sequence of wizard runs no two config entries have the
\* same provider type, provider key and base URL (the URL as it was typed
\* and stored); the run that completes for a configured triple is aborted
\* and its entry is not created.
C8_NoTwoEntriesShareTriple ==
    \A a \in Configured, b \in Configured :
        a # b => Triple(entries[a].data) # Triple(entries[b].data)

\* a run was aborted for the triple of an entry, with a slot still free
C8_Witness ==
    /\ flow.step = "aborted"
    /\ FreeIds # {}
    /\ \E e \in Configured :
           Triple(entries[e].data)
               = <<flow.provider_type, flow.provider_key, flow.api_url>>

RequiredKey(provider_type, d) ==
    IF provider_type = PROVIDER_TYPE_ELECTRIC THEN d.rates ELSE d.water

Created == {e \in EntryIds : entries[e] = NoEntry /\ entries'[e] # NoEntry}

\* C9: a config entry is created only by the step that has the answer to
\* the validation request in hand: the submitted label is one of those
\* offered, the request went to the rates endpoint of the chosen type for
\* the key behind that label, and the answer has status 200 and a JSON
\* object with the required top-level key; the entry is the one for that
\* key.  Nothing else changes the entries.
C9_EntryOnlyAfterValidation ==
    [][entries' # entries =>
         /\ flow.step = "provider_validate"
         /\ \E p \in flow.providers :
                /\ p.label = flow.label
                /\ p.key = flow.provider_key
                /\ flow.req.url =
                     IF flow.provider_type = PROVIDER_TYPE_ELECTRIC
                     THEN Rstrip(flow.api_url) \o <<"/rates/electric/">>
                              \o p.key \o <<"/residential">>
                     ELSE Rstrip(flow.api_url) \o <<"/water/rates/">>
                              \o p.key
         /\ flownet.kind = "http"
         /\ flownet.status = 200
         /\ flownet.body.json
         /\ flownet.body.top.t = "obj"
         /\ RequiredKey(flow.provider_type, flownet.body.doc).t # "absent"
         /\ \E e \in Created :
                /\ entries'[e].data.provider = flow.provider_key
                /\ entries'[e].data.provider_type = flow.provider_type
                /\ \A o \in EntryIds \ {e} : entries'[o] = entries[o]
    ]_vars

\* an electric entry was created from a validated answer
C9_Witness ==
    /\ flow.step = "created"
    /\ flow.provider_type = PROVIDER_TYPE_ELECTRIC
    /\ \E e \in Configured : entries[e].data.provider = flow.provider_key

DiscoveryFailed(resp) ==
    \/ resp.kind \in {"error", "timeout"}
    \/ resp.kind = "http" /\ resp.status # 200

StaticTable(provider_type) ==
    IF provider_type = PROVIDER_TYPE_ELECTRIC
    THEN STATIC_ELECTRIC_PROVIDERS ELSE STATIC_WATER_PROVIDERS

\* C10: when the discovery request of step 1 fails (transport error,
\* timeout, status other than 200), the wizard goes on to step 2 and offers
\* the static table of the chosen type.
C10_DiscoveryFailureFallsBack ==
    [][(flow.step = "user_fetch" /\ flow'.step # "user_fetch"
          /\ DiscoveryFailed(flownet))
       => (flow'.step = "provider"
             /\ flow'.providers = StaticTable(flow.provider_type))
    ]_vars

\* a request of the wizard that ended in a connection error or a status
\* other than 200
RequestFailed(resp) ==
    \/ resp.kind \in {"error", "timeout"}
    \/ resp.kind = "http" /\ resp.status # 200

\* a 200 answer to the discovery request that is not an object holding a
\* list of provider objects
DiscoveryMalformed(resp) ==
    /\ resp.kind = "http" /\ resp.status = 200
    /\ \/ ~resp.body.json
       \/ resp.body.top.t # "obj"
       \/ resp.body.providers.t # "list"
       \/ \E i \in DOMAIN resp.body.items : ~resp.body.items[i].isdict

\* a 200 answer to the validation request that is not an object holding the
\* required top-level key
ValidationMalformed(provider_type, resp) ==
    /\ resp.kind = "http" /\ resp.status = 200
    /\ \/ ~resp.body.json
       \/ resp.body.top.t # "obj"
       \/ RequiredKey(provider_type, resp.body.doc).t = "absent"

StepUserEnds == flow.step = "user_fetch" /\ flow'.step # "user_fetch"
StepProviderEnds ==
    flow.step = "provider_validate" /\ flow'.step # "provider_validate"

\* the form of this step is shown again with an error and no entry is made
Reprompted(step) ==
    /\ flow'.step = step
    /\ flow'.errors = "cannot_connect"
    /\ entries' = entries

-----------------------------------------------------------------------------
(* Schema errors during polling, under Spec.                               *)

\* a 200 answer whose body is JSON but no object, or an object without the
\* top-level key of the provider type
SchemaFailure(provider_type, resp) ==
    /\ resp.kind = "http" /\ resp.status = 200 /\ resp.body.json
    /\ \/ ~IsDict(resp.body.top)
       \/ RequiredKey(provider_type, resp.body.doc).t = "absent"

\* C12 (as claimed): a polling fetch answered by 200 with a body that is no
\* JSON object, or an object without the required top-level key (rates for
\* electric, water for water), leaves the cached document as it was and
\* sets last_update_success to false.
C12_SchemaErrorIsFailedFetch ==
    [][\A e \in EntryIds :
         (PollCompletes(e)
            /\ SchemaFailure(entries[e].data.provider_type, net[e])) =>
             (data'[e] = data[e] /\ last_update_success'[e] = FALSE)]_vars

-----------------------------------------------------------------------------
(* Projection properties, under SpecSensor.                                *)

\* the last reading is of sensor s over a document
Read(s) == reading.entry # 0 /\ reading.sensor = s

\* C13: over a water document that has no sewer key, Sewer usage rate and
\* Sewer base charge read Unknown, while Water usage rate and Water base
\* charge read the numbers water.use_rate and water.base_charge hold.
C13_SewerAbsentWaterPopulated ==
    (reading.entry # 0 /\ ReadDoc.water = Obj /\ ReadDoc.sewer = Absent) =>
        /\ reading.sensor \in {"Sewer usage rate", "Sewer base charge"}
               => reading.res = Unknown
        /\ (reading.sensor = "Water usage rate" /\ ReadDoc.use_rate.t = "num")
               => reading.res = Value(ReadDoc.use_rate.v)
        /\ (reading.sensor = "Water base charge"
              /\ ReadDoc.base_charge.t = "num")
               => reading.res = Value(ReadDoc.base_charge.v)

\* Sewer usage rate was read over a document without sewer whose water
\* rates are numbers
C13_Witness ==
    /\ Read("Sewer usage rate")
    /\ ReadDoc.water = Obj /\ ReadDoc.sewer = Absent
    /\ ReadDoc.use_rate.t = "num" /\ ReadDoc.base_charge.t = "num"
    /\ reading.res = Unknown

\* the five sensors that read through _get_residential_standard
ResidentialSensors ==
    {"Total energy rate", "Fixed customer charge", "Energy price",
     "Daily fixed cost", "Monthly fixed cost"}

\* rates and rates.residential_standard are objects or missing, and
\* is_present is false, falsy or absent
NotPresent(d) ==
    /\ d.rates.t \in {"absent", "null", "obj"}
    /\ d.rs.t \in {"absent", "null", "obj"}
    /\ ~Truthy(d.is_present)

ValidElectric(d) ==
    /\ d.rates = Obj /\ d.rs = Obj /\ d.is_present = JTrue
    /\ d.energy.t = "num" /\ d.fuel.t = "num" /\ d.charge.t = "num"

\* r, in units of 0.000002, is a multiple of 0.00001 and no multiple of
\* 0.00001 is nearer to num / den
IsRoundedTo5(r, num, den) ==
    /\ r % 5 = 0
    /\ 2 * (den * r - num) <= 5 * den
    /\ 2 * (num - den * r) <= 5 * den

\* C15: over a valid electric document, Energy price is energy_rate +
\* fuel_rate rounded to 5 decimals and Daily fixed cost is
\* monthly_charge / 30 rounded to 5 decimals.
C15_DerivedValuesRounded ==
    (reading.entry # 0 /\ ValidElectric(ReadDoc)) =>
        /\ reading.sensor = "Energy price" =>
               /\ reading.res.st = "value"
               /\ IsRoundedTo5(reading.res.v,
                               ReadDoc.energy.v + ReadDoc.fuel.v, 1)
        /\ reading.sensor = "Daily fixed cost" =>
               /\ reading.res.st = "value"
               /\ IsRoundedTo5(reading.res.v, ReadDoc.charge.v, 30)

\* Energy price was read over a valid document whose sum 0.110002 is no
\* multiple of 0.00001
C15_Witness ==
    /\ Read("Energy price")
    /\ ValidElectric(ReadDoc)
    /\ (ReadDoc.energy.v + ReadDoc.fuel.v) % 5 # 0
    /\ reading.res.st = "value"

-----------------------------------------------------------------------------
(* SpecReread: the host reads a sensor again at a later moment, the        *)
(* coordinator polling nothing in between.  A reading also records the     *)
(* moment it was taken at and whether it repeats, at a later moment, the   *)
(* reading before it.                                                      *)

\* the documents of SpecReread: every shape of DocsOf, each rate field
\* either missing or one number
RereadDocs(entry) ==
    {d \in DocsOf(entry) :
        /\ d.energy \in {Absent, Num(45001)}
        /\ d.fuel \in {Absent, Num(10000)}
        /\ d.charge \in {Absent, Num(100)}
        /\ d.use_rate \in {Absent, Num(2000)}
        /\ d.base_charge \in {Absent, Num(2000)}
        /\ d.sewer_use_rate \in {Absent, Num(3000)}
        /\ d.sewer_base_charge \in {Absent, Num(3000)}}

RereadInit ==
    /\ SensorInit
    /\ \A e \in registry : data[e] \in RereadDocs(entries[e])

\* the host reads available and native_value of sensor s of entry e
RereadSensor(e, s) ==
    /\ e \in platforms
    /\ s \in SensorsOf(entries[e])
    /\ reading' = [entry |-> e, sensor |-> s, available |-> Available(e),
                   res |-> NativeValue(s, data[e], now),
                   at |-> now,
                   again |-> /\ reading.entry = e
                             /\ reading.sensor = s
                             /\ reading.at < now]
    /\ UNCHANGED <<entries, coordVars, now, flow, flownet>>

RereadNext ==
    \/ \E e \in EntryIds : \E s \in ElectricSensors \cup WaterSensors :
           RereadSensor(e, s)
    \/ ClockTick

SpecReread == RereadInit /\ [][RereadNext]_vars

\* the sensors whose value is the time since fetched_at
AgeSensors == {"Rates age", "Water rates age"}

\* this step reads the sensor of the last reading again, over the same
\* cached document
ReadsAgain ==
    /\ reading.entry # 0
    /\ reading' # reading
    /\ reading'.entry = reading.entry
    /\ reading'.sensor = reading.sensor
    /\ data' = data

\* C16 (as claimed): two readings of any sensor over the same cached
\* document, at any two moments, give the same value; the Rates last
\* refresh and Rates age sensors are no exception.
C16_RereadGivesSameValue ==
    [][ReadsAgain => reading'.res = reading.res]_vars

\* C16 (amended): two readings of any sensor other than Rates age and Water
\* rates age over the same cached document, at any two moments, give the
\* same value.
C16_RereadGivesSameValueButAge ==
    [][(ReadsAgain /\ reading.sensor \notin AgeSensors)
         => reading'.res = reading.res]_vars

\* Rates last refresh was read a second time, at a later moment, and gave
\* a timestamp
C16_Witness ==
    /\ Read("Rates last refresh")
    /\ reading.again
    /\ reading.res.st = "value"

-----------------------------------------------------------------------------
(* SpecPoll: one entry, with any base URL, token, type and key the wizard  *)
(* can store, is set up, polled and unloaded.                              *)

PollUrls ==
    {<<"http://h">>, <<"http://h", "/">>, <<"http://h", "/", "/">>,
     <<"http://h", "/", "api">>, <<"http://h", "/", "api", "/">>}
PollKeys == {<<"cemc">>, <<"whud">>}

PollEntries ==
    {ConfigEntry(Wizard(api_url, api_token, provider_type), provider_key) :
        api_url \in PollUrls, api_token \in FlowTokens,
        provider_type \in ProviderTypes, provider_key \in PollKeys}

PollInit ==
    /\ \E e0 \in EntryIds : \E c \in PollEntries :
           entries = [e \in EntryIds |-> IF e = e0 THEN c ELSE NoEntry]
    /\ CoordInit
    /\ now = 0
    /\ reading = NoReading
    /\ flow = NoFlow
    /\ flownet = NoFlowResp

SpecPoll == PollInit /\ [][Next]_vars

\* base is url without the slashes url ends in
IsStripped(base, url) ==
    /\ Len(base) <= Len(url)
    /\ \A i \in 1..Len(base) : base[i] = url[i]
    /\ \A i \in (Len(base) + 1)..Len(url) : url[i] = "/"
    /\ base = <<>> \/ base[Len(base)] # "/"

\* request r goes to base_url, less its trailing slashes, followed by path
PollsPath(r, base_url, path) ==
    \E n \in 0..Len(r.url) :
        /\ IsStripped(SubSeq(r.url, 1, n), base_url)
        /\ SubSeq(r.url, n + 1, Len(r.url)) = path

\* C17 (as claimed): every poll goes to base_url without its trailing slash
\* followed by /rates/{provider}/residential for an electric provider and
\* by /water/rates/{provider} for a water provider.
C17_PollingUrlAsSpecified ==
    \A e \in EntryIds :
        req[e] # NoReq =>
            PollsPath(req[e], entries[e].data.api_url,
                IF entries[e].data.provider_type = PROVIDER_TYPE_ELECTRIC
                THEN <<"/rates/">> \o entries[e].data.provider
                         \o <<"/residential">>
                ELSE <<"/water/rates/">> \o entries[e].data.provider)

\* C17 (amended): every poll goes to base_url without its trailing slashes
\* followed by /rates/electric/{provider}/residential for an electric
\* provider and by /water/rates/{provider} for a water provider.
C17_PollingUrlOfTheCode ==
    \A e \in EntryIds :
        req[e] # NoReq =>
            PollsPath(req[e], entries[e].data.api_url,
                IF entries[e].data.provider_type = PROVIDER_TYPE_ELECTRIC
                THEN <<"/rates/electric/">> \o entries[e].data.provider
                         \o <<"/residential">>
                ELSE <<"/water/rates/">> \o entries[e].data.provider)

\* an electric entry whose base URL ends in two slashes has been polled
\* after its first fetch
C17_Witness ==
    \E e \in EntryIds :
        /\ entries[e].data.provider_type = PROVIDER_TYPE_ELECTRIC
        /\ entries[e].data.api_url = <<"http://h", "/", "/">>
        /\ estate[e] = "loaded"
        /\ Len(hist[e]) = 2
        /\ req[e] # NoReq

-----------------------------------------------------------------------------
(* The wizard's validation request and the coordinator's polling request,  *)
(* under SpecFlow.  FetchRequest(entry) is the request the coordinator of  *)
(* the entry issues at its first refresh and at every tick.                *)

\* C18: for the entry a wizard run creates, the request the coordinator
\* issues has the URL and the Authorization header of the validation
\* request of that run, and the header is present exactly when a non-empty
\* token was entered.
C18_PolledEndpointIsValidated ==
    [][\A e \in Created :
         LET polled == FetchRequest(entries'[e])
             validated == flow.req
         IN  /\ polled.url = validated.url
             /\ polled.headers.authorization
                    = validated.headers.authorization
             /\ polled.headers.authorization # <<>> <=> flow.api_token # <<>>
    ]_vars

\* an entry was created for a base URL ending in a slash and with a token
C18_Witness ==
    /\ flow.step = "created"
    /\ flow.api_url = <<"http://h", "/">>
    /\ flow.api_token = <<"tok">>
    /\ \E e \in Configured :
           /\ entries[e] = ConfigEntry(flow, flow.provider_key)
           /\ FetchRequest(entries[e]).headers.authorization
                  = <<"Bearer ", "tok">>

\* C19 (as claimed): after any sequence of completed wizard runs, no two
\* config entries of the same provider type and provider key poll the same
\* URL; a run whose base URL differs from that of an entry only in trailing
\* slashes is rejected as a duplicate.
C19_NoTwoEntriesPollSameUrl ==
    \A a \in Configured, b \in Configured :
        (/\ a # b
         /\ entries[a].data.provider_type = entries[b].data.provider_type
         /\ entries[a].data.provider = entries[b].data.provider)
        => FetchRequest(entries[a]).url # FetchRequest(entries[b]).url

=============================================================================
